---- MODULE Spec2Model ----
(***************************************************************************)
(* json2html(data): renders an array of flat records as an HTML table.     *)
(*                                                                         *)
(* A record is its list of own properties in own-property order; the key   *)
(* domain holds no array-index names, so that order is creation order.     *)
(* An HTML string is kept as the sequence of the pieces it is concatenated *)
(* from (literal markup pieces and stringified values); Text joins them.   *)
(* Keys and values of the domain contain no markup.                        *)
(***************************************************************************)
EXTENDS Integers, Sequences, FiniteSets

MaxRecords == 2
MaxProps == 2
MaxCalls == 2

\* ---------------------------------------------------------------- values
Undefined == [type |-> "undefined", val |-> "undefined"]
Null == [type |-> "null", val |-> "null"]
Bool(b) == [type |-> "boolean", val |-> b]
Num(n) == [type |-> "number", val |-> n]
Str(s) == [type |-> "string", val |-> s]
Fn(src) == [type |-> "function", val |-> src]

Keys == {"a", "b", "constructor"}

Values == {Undefined, Null, Bool(FALSE), Bool(TRUE), Num(0), Num(15), Str(""), Str("x")}

\* Properties every plain object inherits from Object.prototype.
ObjectPrototype ==
  [constructor |-> Fn("function Object() { [native code] }"),
   toString |-> Fn("function toString() { [native code] }")]

\* ToBoolean
ToBoolean(v) ==
  CASE v.type = "undefined" -> FALSE
    [] v.type = "null" -> FALSE
    [] v.type = "boolean" -> v.val
    [] v.type = "number" -> v.val # 0
    [] v.type = "string" -> v.val # ""
    [] OTHER -> TRUE

Digit(d) ==
  CASE d = 0 -> "0" [] d = 1 -> "1" [] d = 2 -> "2" [] d = 3 -> "3" [] d = 4 -> "4"
    [] d = 5 -> "5" [] d = 6 -> "6" [] d = 7 -> "7" [] d = 8 -> "8" [] d = 9 -> "9"

RECURSIVE NatToString(_)
NatToString(n) == IF n < 10 THEN Digit(n) ELSE NatToString(n \div 10) \o Digit(n % 10)

\* Number::toString for integers
NumberToString(n) == IF n < 0 THEN "-" \o NatToString(-n) ELSE NatToString(n)

\* ToString, as applied by a template literal
ToString(v) ==
  CASE v.type = "boolean" -> (IF v.val THEN "true" ELSE "false")
    [] v.type = "number" -> NumberToString(v.val)
    [] OTHER -> v.val

\* ---------------------------------------------------------------- records
Prop(k, v) == [key |-> k, value |-> v]

\* Object.keys(row): the own keys, in own-property order
ObjectKeys(row) == [i \in 1..Len(row) |-> row[i].key]

HasOwn(row, k) == \E i \in 1..Len(row) : row[i].key = k

\* row[k]: the own property, else the inherited one, else undefined
Get(row, k) ==
  IF HasOwn(row, k) THEN row[CHOOSE i \in 1..Len(row) : row[i].key = k].value
  ELSE IF k \in DOMAIN ObjectPrototype THEN ObjectPrototype[k]
  ELSE Undefined

\* a ?? b: only undefined and null give way to b
NullishCoalescing(a, b) == IF a.type \in {"undefined", "null"} THEN b ELSE a

\* a || b
LogicalOr(a, b) == IF ToBoolean(a) THEN a ELSE b

\* ---------------------------------------------------------------- line 5
RECURSIVE FlatMapKeys(_)
\* data.flatMap(Object.keys)
FlatMapKeys(d) == IF d = <<>> THEN <<>> ELSE ObjectKeys(Head(d)) \o FlatMapKeys(Tail(d))

InSeq(s, x) == \E i \in 1..Len(s) : s[i] = x

RECURSIVE SetInsertLast(_, _)
\* a set that moves a key seen again to the end (delete, then add)
SetInsertLast(acc, s) ==
  IF s = <<>> THEN acc
  ELSE SetInsertLast(Append(SelectSeq(acc, LAMBDA x : x # Head(s)), Head(s)), Tail(s))

RECURSIVE SetInsert(_, _)
\* [...new Set(s)] continued from the insertion-ordered members acc
SetInsert(acc, s) ==
  IF s = <<>> THEN acc
  ELSE IF InSeq(acc, Head(s)) THEN SetInsert(acc, Tail(s))
  ELSE SetInsert(Append(acc, Head(s)), Tail(s))

\* [...s]: the keys as scanned, no set built
SpreadArray(s) == s

\* [...new Set(s)]
SpreadSet(s) == SetInsert(<<>>, s)

\* ---------------------------------------------------------------- markup
TableOpen == <<"<table data-user=\"bingikarthik2014@gmail.com\"><thead><tr>">>
TableMid == <<"</tr></thead><tbody>">>
TableClose == <<"</tbody></table>">>

RECURSIVE Join(_)
\* pieces.join('') of a sequence of piece sequences
Join(ss) == IF ss = <<>> THEN <<>> ELSE Head(ss) \o Join(Tail(ss))

\* `<th>${header}</th>`
Th(header) == <<"<th>", header, "</th>">>

\* `<td>${row[header] || ''}</td>`
Td(row, header) == <<"<td>", ToString(LogicalOr(Get(row, header), Str(""))), "</td>">>

\* a header row that shows one empty <th> when there is no header
HeaderCellsOrPlaceholder(hs) ==
  IF hs = <<>> THEN <<"<th>", "", "</th>">> ELSE Join([j \in 1..Len(hs) |-> <<"<th>", hs[j], "</th>">>])

\* headers.map(header => `<th>${header}</th>`).join('')
HeaderCells(hs) == Join([j \in 1..Len(hs) |-> Th(hs[j])])

\* a row that iterates the record's own keys, not the headers
TrOwnKeys(row, hs) ==
  <<"<tr>">> \o Join([j \in 1..Len(row) |-> Td(row, ObjectKeys(row)[j])]) \o <<"</tr>">>

\* a row that walks the headers from the last to the first
TrReversed(row, hs) ==
  <<"<tr>">> \o Join([j \in 1..Len(hs) |-> Td(row, hs[Len(hs) + 1 - j])]) \o <<"</tr>">>

\* `<tr>${headers.map(header => ...).join('')}</tr>`
Tr(row, hs) == <<"<tr>">> \o Join([j \in 1..Len(hs) |-> Td(row, hs[j])]) \o <<"</tr>">>

\* rows for the non-empty records only
BodyRowsNonEmpty(d, hs) ==
  LET kept == SelectSeq(d, LAMBDA row : row # <<>>)
  IN Join([i \in 1..Len(kept) |-> <<"<tr>">> \o Join([j \in 1..Len(hs) |-> Td(kept[i], hs[j])]) \o <<"</tr>">>])

\* data.map(row => ...).join('')
BodyRows(d, hs) == Join([i \in 1..Len(d) |-> Tr(d[i], hs)])

\* ---------------------------------------------------------------- inputs
RECURSIVE SeqsUpTo(_, _)
SeqsUpTo(S, n) ==
  IF n = 0 THEN {<<>>}
  ELSE LET shorter == SeqsUpTo(S, n - 1)
       IN shorter \cup {Append(s, x) : s \in {t \in shorter : Len(t) = n - 1}, x \in S}

\* key lists of a record: pairwise distinct keys
KeyLists ==
  {ks \in SeqsUpTo(Keys, MaxProps) : \A i, j \in 1..Len(ks) : i # j => ks[i] # ks[j]}

\* records over every value of the domain
Records ==
  {r \in SeqsUpTo({Prop(k, v) : k \in Keys, v \in Values}, MaxProps) :
     \A i, j \in 1..Len(r) : i # j => r[i].key # r[j].key}

\* every shape of input (which record holds which keys, in which order), the
\* property p of record i holding the number 10 * i + p
ShapeInputs ==
  {[i \in 1..Len(ss) |-> [p \in 1..Len(ss[i]) |-> Prop(ss[i][p], Num(10 * i + p))]] :
     ss \in SeqsUpTo(KeyLists, MaxRecords)}

\* every record over every value, alone or repeated
ValueInputs == {[i \in 1..n |-> r] : r \in Records, n \in 1..MaxRecords}

Inputs == ShapeInputs \cup ValueInputs

\* ---------------------------------------------------------------- state
\* data: the caller's array; pc, headers, html: the running call;
\* returned: the strings returned to the caller so far
VARIABLES data, pc, headers, html, returned

vars == <<data, pc, headers, html, returned>>

Init ==
  /\ data \in Inputs
  /\ pc = "line5"
  /\ headers = <<>>
  /\ html = <<>>
  /\ returned = <<>>

\* const headers = [...new Set(data.flatMap(Object.keys))];
ExtractHeaders ==
  /\ pc = "line5"
  /\ headers' = SpreadSet(FlatMapKeys(data))
  /\ pc' = "line8"
  /\ UNCHANGED <<data, html, returned>>

\* let html = '<table ...><thead><tr>'; html += headers...; html += '</tr></thead><tbody>';
RenderHead ==
  /\ pc = "line8"
  /\ html' = TableOpen \o HeaderCells(headers) \o TableMid
  /\ pc' = "line15"
  /\ UNCHANGED <<data, headers, returned>>

\* row[k] = v
Put(row, k, v) ==
  IF HasOwn(row, k) THEN [i \in 1..Len(row) |-> IF row[i].key = k THEN Prop(k, v) ELSE row[i]]
  ELSE Append(row, Prop(k, v))

RECURSIVE FillRow(_, _)
\* row[header] = row[header] || '' for every header of hs
FillRow(row, hs) ==
  IF hs = <<>> THEN row
  ELSE FillRow(Put(row, Head(hs), LogicalOr(Get(row, Head(hs)), Str(""))), Tail(hs))

\* a body step that stores the defaults into the records it renders
RenderBodyFill ==
  /\ pc = "line15"
  /\ html' = html \o BodyRows(data, headers)
  /\ data' = [i \in 1..Len(data) |-> FillRow(data[i], headers)]
  /\ pc' = "line19"
  /\ UNCHANGED <<headers, returned>>

\* a body step that takes the records out of the array with shift()
RenderBodyShift ==
  /\ pc = "line15"
  /\ html' = html \o BodyRows(data, headers)
  /\ data' = <<>>
  /\ pc' = "line19"
  /\ UNCHANGED <<headers, returned>>

\* html += data.map(row => ...).join('');
RenderBody ==
  /\ pc = "line15"
  /\ html' = html \o BodyRows(data, headers)
  /\ pc' = "line19"
  /\ UNCHANGED <<data, headers, returned>>

\* html += '</tbody></table>'; return html;
Return ==
  /\ pc = "line19"
  /\ html' = html \o TableClose
  /\ returned' = Append(returned, html')
  /\ pc' = "done"
  /\ UNCHANGED <<data, headers>>

\* the caller calls json2html(data) again; the locals of the new call are fresh
CallAgain ==
  /\ pc = "done"
  /\ Len(returned) < MaxCalls
  /\ pc' = "line5"
  /\ headers' = <<>>
  /\ html' = <<>>
  /\ UNCHANGED <<data, returned>>

Next == ExtractHeaders \/ RenderHead \/ RenderBody \/ Return \/ CallAgain

Spec == Init /\ [][Next]_vars

\* ---------------------------------------------------------------- reading the output
\* the positions of the piece tok in h, ascending
Positions(h, tok) == SelectSeq([i \in 1..Len(h) |-> i], LAMBDA i : h[i] = tok)

\* the texts that follow the pieces open in h, in order
TextsAfter(h, open) ==
  LET p == Positions(h, open) IN [k \in 1..Len(p) |-> h[p[k] + 1]]

\* the header row of the output: the text of each <th>
ThTexts(h) == TextsAfter(h, "<th>")

\* the body rows of the output: for each <tr>...</tr>, the text of each <td>
RowCells(h) ==
  LET s == Positions(h, "<tr>")
      e == Positions(h, "</tr>")
  IN [k \in 1..Len(s) |-> TextsAfter(SubSeq(h, s[k], e[k]), "<td>")]

\* the column of key k in the header row of the output
Column(h, k) == CHOOSE j \in 1..Len(ThTexts(h)) : ThTexts(h)[j] = k

RECURSIVE Text(_)
\* the string the pieces of h make
Text(h) == IF h = <<>> THEN "" ELSE Head(h) \o Text(Tail(h))

NoDuplicates(s) == \A i, j \in 1..Len(s) : i # j => s[i] # s[j]

Falsy == {Undefined, Null, Bool(FALSE), Num(0), Str("")}

HeadersComputed == pc \in {"line8", "line15", "line19", "done"}

\* the places <<i, p>> where key k occurs: property p of record i
Occurrences(k) ==
  UNION {{<<i, p>> : p \in {q \in 1..Len(data[i]) : data[i][q].key = k}} : i \in 1..Len(data)}

ScannedBefore(x, y) == x[1] < y[1] \/ (x[1] = y[1] /\ x[2] < y[2])

\* some occurrence of key k is scanned before every occurrence of key l
FirstSeenBefore(k, l) ==
  \E x \in Occurrences(k) : \A y \in Occurrences(l) : ScannedBefore(x, y)

AllKeys == UNION {{data[i][p].key : p \in 1..Len(data[i])} : i \in 1..Len(data)}

\* ---------------------------------------------------------------- claims

\* C1: once computed, the header sequence holds exactly the keys of all
\* records, each once, ordered by first sighting: records scanned in input
\* order, each record's keys in its own key order.
C1_HeadersFirstSeenOrder ==
  HeadersComputed =>
    /\ {headers[j] : j \in 1..Len(headers)} = AllKeys
    /\ Len(headers) = Cardinality(AllKeys)
    /\ \A j, k \in 1..Len(headers) : j < k => FirstSeenBefore(headers[j], headers[k])

\* C1 witness: a later record brings a new key after repeating an old one,
\* and the first record holds two keys.
C1_Witness ==
  /\ pc = "done"
  /\ Len(data) = 2 /\ Len(data[1]) = 2 /\ Len(data[2]) = 2
  /\ ObjectKeys(data[1]) = <<"b", "a">>
  /\ ObjectKeys(data[2]) = <<"a", "constructor">>
  /\ headers = <<"b", "a", "constructor">>

\* C2 (as claimed): in the returned table, the cell of record i in the column
\* of a header that is not a key of record i is empty, whatever the key.
C2_MissingKeyEmptyCell ==
  pc = "done" =>
    \A i \in 1..Len(data) : \A j \in 1..Len(headers) :
      ~HasOwn(data[i], headers[j]) => RowCells(html)[i][j] = ""

\* C3: in the returned table every body row has as many <td> cells as the
\* header row has <th> cells.
C3_CellCountEqualsHeaderCount ==
  pc = "done" =>
    \A i \in 1..Len(RowCells(html)) : Len(RowCells(html)[i]) = Len(ThTexts(html))

\* C3 witness: an empty record and a record with one of two keys, rendered.
C3_Witness ==
  /\ pc = "done"
  /\ Len(data) = 2 /\ data[1] = <<>> /\ Len(data[2]) = 2
  /\ Len(ThTexts(html)) = 2
  /\ Len(RowCells(html)) = 2

\* C4: no key appears more than once in the header row of the output.
C4_HeadersUnique ==
  pc \in {"line15", "line19", "done"} => NoDuplicates(ThTexts(html))

\* C4 witness: two records hold the same key and the table is returned.
C4_Witness ==
  /\ pc = "done"
  /\ Len(data) = 2
  /\ HasOwn(data[1], "a") /\ HasOwn(data[2], "a")
  /\ ThTexts(html) = <<"a">>

\* C5: a key present with a falsy value (undefined, null, false, 0, "")
\* gives an empty cell in its record's row.
C5_FalsyValueEmptyCell ==
  pc = "done" =>
    \A i \in 1..Len(data) : \A p \in 1..Len(data[i]) :
      data[i][p].value \in Falsy => RowCells(html)[i][Column(html, data[i][p].key)] = ""

\* C5 witness: a record holding 0 and false is rendered.
C5_Witness ==
  /\ pc = "done"
  /\ Len(data) = 1
  /\ data[1] = <<Prop("a", Num(0)), Prop("constructor", Bool(FALSE))>>
  /\ RowCells(html) = << <<"", "">> >>

\* the decimal numerals of the numbers of the domain
Numeral(n) ==
  CASE n = 15 -> "15"
    [] n = 11 -> "11" [] n = 12 -> "12" [] n = 13 -> "13" [] n = 14 -> "14"
    [] n = 21 -> "21" [] n = 22 -> "22" [] n = 23 -> "23" [] n = 24 -> "24"
    [] n = 31 -> "31" [] n = 32 -> "32" [] n = 33 -> "33" [] n = 34 -> "34"
    [] n = 41 -> "41" [] n = 42 -> "42" [] n = 43 -> "43" [] n = 44 -> "44"

\* the string representation of a truthy primitive of the domain
Representation(v) ==
  CASE v.type = "number" -> Numeral(v.val)
    [] v.type = "string" -> v.val
    [] v = Bool(TRUE) -> "true"

\* C6: a key present with a truthy primitive value v puts the string
\* representation of v in the row of its record and the column of its key.
C6_ValueInOwnRowAndColumn ==
  pc = "done" =>
    \A i \in 1..Len(data) : \A p \in 1..Len(data[i]) :
      data[i][p].value \notin Falsy =>
        RowCells(html)[i][Column(html, data[i][p].key)] = Representation(data[i][p].value)

\* C6 witness: two records with different keys and different values.
C6_Witness ==
  /\ pc = "done"
  /\ data = << <<Prop("a", Num(11)), Prop("b", Num(12))>>, <<Prop("b", Num(21))>> >>
  /\ RowCells(html) = << <<"11", "12">>, <<"", "21">> >>

\* C7: the returned string is the opening, one <th> per header in header
\* order, the middle, one <tr>...</tr> per record with one <td> per header,
\* and the closing, with nothing else.
C7_OutputShape ==
  pc = "done" =>
    LET n == Len(headers)
        m == Len(data)
        w == 3 * n + 2
    IN /\ Len(html) = 3 + 3 * n + m * w
       /\ html[1] = "<table data-user=\"bingikarthik2014@gmail.com\"><thead><tr>"
       /\ \A j \in 1..n :
            /\ html[3 * j - 1] = "<th>"
            /\ html[3 * j] = headers[j]
            /\ html[3 * j + 1] = "</th>"
       /\ html[w] = "</tr></thead><tbody>"
       /\ \A i \in 1..m :
            /\ html[i * w + 1] = "<tr>"
            /\ \A j \in 1..n :
                 /\ html[i * w + 3 * j - 1] = "<td>"
                 /\ html[i * w + 3 * j + 1] = "</td>"
            /\ html[(i + 1) * w] = "</tr>"
       /\ html[Len(html)] = "</tbody></table>"

\* C7 witness: two equal records of two keys give two rows.
C7_Witness ==
  /\ pc = "done"
  /\ Len(data) = 2 /\ data[1] = data[2] /\ Len(data[1]) = 2
  /\ Len(Positions(html, "<tr>")) = 2

\* C8: for the empty input the headers are empty and the output is the
\* wrapper with an empty header row and an empty body.
C8_EmptyInput ==
  (pc = "done" /\ data = <<>>) =>
    /\ headers = <<>>
    /\ Text(html) =
         "<table data-user=\"bingikarthik2014@gmail.com\"><thead><tr></tr></thead><tbody></tbody></table>"

\* C8 witness: the call on the empty array has returned.
C8_Witness == pc = "done" /\ data = <<>> /\ Len(returned) = 1

\* C9: every call on the same array returns the same string.
C9_SameInputSameOutput ==
  \A i, j \in 1..Len(returned) : returned[i] = returned[j]

\* C9 witness: a second call on a non-empty array has returned.
C9_Witness ==
  /\ pc = "done" /\ Len(returned) = 2 /\ Len(data) = 2 /\ Len(data[1]) = 1
  /\ returned[2] = html

\* C10: no step of a call changes the input array or any record in it.
C10_InputUnchanged == [][data' = data]_vars

\* C10 witness: a call on an array with a record that lacks a header has
\* rendered its body.
C10_Witness ==
  /\ pc = "line19"
  /\ Len(data) = 2 /\ Len(headers) = 2 /\ Len(data[2]) = 1 /\ Len(data[1]) = 1
  /\ Len(returned) = 0

====
